---- MODULE Spec2Model ----
(***************************************************************************)
(* Model of src/stopwords.py: the module load, remove_stopwords() and the  *)
(* CLI entry point main().                                                 *)
(*                                                                         *)
(* A Python str is a sequence of one-character strings.  Four characters   *)
(* are written by name: "U+0060" (the backtick), "U+2019" (right single    *)
(* quotation mark), "U+FFFD" (replacement character) and, on standard      *)
(* input only, the byte "0xFF" (a byte that is not valid UTF-8).           *)
(*                                                                         *)
(* NLTK is not part of the repository.  word_tokenize is modelled by the   *)
(* rewriting passes of NLTK's Treebank word tokenizer that can fire on the *)
(* characters of the modelled inputs; the Punkt sentence splitter, a       *)
(* statistical model, is a nondeterministic choice of sentence ends among  *)
(* the periods that are followed by whitespace and more text.  The         *)
(* stopword corpus is a sample: two languages, and of each language the    *)
(* stopwords that can be written with the modelled characters.             *)
(***************************************************************************)
EXTENDS Integers, Sequences, FiniteSets, TLC

\* ------------------------------------------------------------------------
\* Bounds of the model

\* longest enumerated text argument of remove_stopwords
MaxLen == 3

\* longest enumerated CLI input (argv text, or bytes on standard input)
MaxCliLen == 2

\* ------------------------------------------------------------------------
\* Characters and strings

\* characters the enumerated texts are built from
Alphabet == {"x", "a", "s", " ", ".", "-", "U+2019"}

\* bytes the enumerated standard inputs are built from
StdinAlphabet == {"x", "a", " ", "0xFF"}

RECURSIVE SeqsUpTo(_, _)
SeqsUpTo(S, n) ==
    IF n = 0 THEN {<<>>}
    ELSE LET shorter == SeqsUpTo(S, n - 1)
         IN  shorter \cup {Append(s, c) : s \in {t \in shorter : Len(t) = n - 1}, c \in S}

\* str.lower() on one character
LowerChar(c) ==
    CASE c = "A" -> "a"
      [] c = "E" -> "e"
      [] c = "G" -> "g"
      [] c = "H" -> "h"
      [] c = "I" -> "i"
      [] c = "J" -> "j"
      [] c = "K" -> "k"
      [] c = "L" -> "l"
      [] c = "N" -> "n"
      [] c = "O" -> "o"
      [] c = "S" -> "s"
      [] c = "X" -> "x"
      [] OTHER -> c

\* str.lower()
Lower(s) == [i \in 1..Len(s) |-> LowerChar(s[i])]

\* whitespace, as str.split(), str.strip() and the regex class \s see it
Whitespace == {" ", "\t", "\n"}

\* string.punctuation
string_punctuation ==
    <<"!", "\"", "#", "$", "%", "&", "'", "(", ")", "*", "+", ",", "-", ".",
      "/", ":", ";", "<", "=", ">", "?", "@", "[", "\\", "]", "^", "_", "U+0060",
      "{", "|", "}", "~">>

\* `w in s` for two Python strings: w occurs in s as a substring
IsSubstring(w, s) ==
    \E i \in 0..(Len(s) - Len(w)) : \A k \in 1..Len(w) : s[i + k] = w[k]

\* str.endswith
EndsWith(s, suffix) ==
    /\ Len(s) >= Len(suffix)
    /\ \A k \in 1..Len(suffix) : s[Len(s) - Len(suffix) + k] = suffix[k]

\* str.replace(char, "") for a one-character string char
RemoveChar(s, c) == SelectSeq(s, LAMBDA d : d # c)

\* str.strip()
RECURSIVE Strip(_)
Strip(s) ==
    IF s = <<>> THEN s
    ELSE IF Head(s) \in Whitespace THEN Strip(Tail(s))
    ELSE IF s[Len(s)] \in Whitespace THEN Strip(SubSeq(s, 1, Len(s) - 1))
    ELSE s

\* str.split(): the maximal runs of non-whitespace characters
RECURSIVE SplitFrom(_, _, _)
SplitFrom(s, i, cur) ==
    IF i > Len(s) THEN (IF cur = <<>> THEN <<>> ELSE <<cur>>)
    ELSE IF s[i] \in Whitespace
         THEN (IF cur = <<>> THEN <<>> ELSE <<cur>>) \o SplitFrom(s, i + 1, <<>>)
         ELSE SplitFrom(s, i + 1, Append(cur, s[i]))

Split(s) == SplitFrom(s, 1, <<>>)

\* a mutation of JoinWords: the words are joined with nothing between them
RECURSIVE JoinNoSeparator(_)
JoinNoSeparator(ws) ==
    IF ws = <<>> THEN <<>> ELSE Head(ws) \o JoinNoSeparator(Tail(ws))

\* " ".join(words)
RECURSIVE JoinWords(_)
JoinWords(ws) ==
    IF ws = <<>> THEN <<>>
    ELSE IF Len(ws) = 1 THEN Head(ws)
    ELSE Head(ws) \o <<" ">> \o JoinWords(Tail(ws))

\* re.sub(r"\s+", " ", s): every run of whitespace becomes one space
RECURSIVE CollapseFrom(_, _)
CollapseFrom(s, i) ==
    IF i > Len(s) THEN <<>>
    ELSE IF s[i] \in Whitespace
         THEN (IF i > 1 /\ s[i - 1] \in Whitespace THEN <<>> ELSE <<" ">>)
              \o CollapseFrom(s, i + 1)
         ELSE <<s[i]>> \o CollapseFrom(s, i + 1)

CollapseWhitespace(s) == CollapseFrom(s, 1)

\* ------------------------------------------------------------------------
\* nltk.tokenize.word_tokenize (external): the Treebank passes, in NLTK's
\* order.  Every pass only inserts spaces; the last step splits on them.

\* the characters that may follow a sentence-final period in the pattern
\* ([^\.])(\.)([\]\)}>"\' and the closing quotation marks, space]*)\s*$
PeriodClosers == {"]", ")", "}", ">", "\"", "'", "U+2019", " "}

\* the longest prefix of s made of characters of S
RECURSIVE PrefixIn(_, _)
PrefixIn(s, S) ==
    IF s # <<>> /\ Head(s) \in S THEN <<Head(s)>> \o PrefixIn(Tail(s), S) ELSE <<>>

\* the position of the period the final-period pattern matches, or 0
FinalPeriodAt(s) ==
    LET ok(i) ==
            /\ s[i] = "."
            /\ s[i - 1] # "."
            /\ LET rest == SubSeq(s, i + 1, Len(s))
                   g3   == PrefixIn(rest, PeriodClosers)
               IN  \A k \in (Len(g3) + 1)..Len(rest) : rest[k] \in Whitespace
        hits == {i \in 2..Len(s) : ok(i)}
    IN  IF hits = {} THEN 0 ELSE CHOOSE i \in hits : \A j \in hits : i <= j

\* PUNCTUATION[0]: "\1 \2 \3 " around the period that ends the sentence
FinalPeriodPass(s) ==
    LET i == FinalPeriodAt(s)
    IN  IF i = 0 THEN s
        ELSE LET rest == SubSeq(s, i + 1, Len(s))
             IN  SubSeq(s, 1, i - 1) \o <<" ", ".", " ">>
                 \o PrefixIn(rest, PeriodClosers) \o <<" ">>

Digits == {"0", "1", "2", "3", "4", "5", "6", "7", "8", "9"}

\* PUNCTUATION[1]: ([:,])([^\d]) -> " \1 \2"; a match consumes both characters
RECURSIVE CommaPass(_, _)
CommaPass(s, i) ==
    IF i > Len(s) THEN <<>>
    ELSE IF s[i] \in {":", ","} /\ i < Len(s) /\ s[i + 1] \notin Digits
         THEN <<" ", s[i], " ", s[i + 1]>> \o CommaPass(s, i + 2)
         ELSE <<s[i]>> \o CommaPass(s, i + 1)

\* PUNCTUATION[2]: ([:,])$ -> " \1 "
FinalCommaPass(s) ==
    IF s # <<>> /\ s[Len(s)] \in {":", ","}
    THEN SubSeq(s, 1, Len(s) - 1) \o <<" ", s[Len(s)], " ">>
    ELSE s

\* the length of the run of character c that starts at position i
RECURSIVE RunLength(_, _, _)
RunLength(s, i, c) ==
    IF i <= Len(s) /\ s[i] = c THEN 1 + RunLength(s, i + 1, c) ELSE 0

\* PUNCTUATION[3]: \.{2,} -> " \g<0> "
RECURSIVE EllipsisPass(_, _)
EllipsisPass(s, i) ==
    IF i > Len(s) THEN <<>>
    ELSE LET n == RunLength(s, i, ".")
         IN  IF n >= 2
             THEN <<" ">> \o SubSeq(s, i, i + n - 1) \o <<" ">> \o EllipsisPass(s, i + n)
             ELSE <<s[i]>> \o EllipsisPass(s, i + 1)

\* a pass that puts a space on both sides of every character of S:
\* PUNCTUATION[4] [;@#$%&], PUNCTUATION[6] [?!], PUNCTUATION[8] [*] and
\* ENDING_QUOTES[0] (the closing quotation marks outside ASCII)
RECURSIVE IsolatePass(_, _, _)
IsolatePass(s, i, S) ==
    IF i > Len(s) THEN <<>>
    ELSE IF s[i] \in S THEN <<" ", s[i], " ">> \o IsolatePass(s, i + 1, S)
    ELSE <<s[i]>> \o IsolatePass(s, i + 1, S)

\* DOUBLE_DASHES: -- -> " -- "
RECURSIVE DoubleDashPass(_, _)
DoubleDashPass(s, i) ==
    IF i > Len(s) THEN <<>>
    ELSE IF s[i] = "-" /\ i < Len(s) /\ s[i + 1] = "-"
         THEN <<" ", "-", "-", " ">> \o DoubleDashPass(s, i + 2)
         ELSE <<s[i]>> \o DoubleDashPass(s, i + 1)

\* ENDING_QUOTES[3]: ([^' ])('[sS]|'[mM]|'[dD]|') -> "\1 \2 " (a space follows
\* the match): the clitic, or the closing quote, is split from its word
RECURSIVE CliticPass(_, _)
CliticPass(s, i) ==
    IF i > Len(s) THEN <<>>
    ELSE LET lead == s[i] \notin {"'", " "} /\ i + 2 <= Len(s) /\ s[i + 1] = "'"
             long == /\ lead
                     /\ i + 3 <= Len(s)
                     /\ s[i + 2] \in {"s", "S", "m", "M", "d", "D"}
                     /\ s[i + 3] = " "
             bare == lead /\ s[i + 2] = " "
         IN  IF long
             THEN <<s[i], " ", "'", s[i + 2], " ">> \o CliticPass(s, i + 3)
             ELSE IF bare
             THEN <<s[i], " ", "'", " ">> \o CliticPass(s, i + 2)
             ELSE <<s[i]>> \o CliticPass(s, i + 1)

\* NLTKWordTokenizer.tokenize on one sentence
TreebankTokenize(s) ==
    LET p0 == FinalPeriodPass(s)
        p1 == CommaPass(p0, 1)
        p2 == FinalCommaPass(p1)
        p3 == EllipsisPass(p2, 1)
        p4 == IsolatePass(p3, 1, {";", "@", "#", "$", "%", "&", "?", "!", "*"})
        p5 == DoubleDashPass(p4, 1)
        p6 == <<" ">> \o p5 \o <<" ">>
        p7 == IsolatePass(p6, 1, {"U+2019"})
        p8 == CliticPass(p7, 1)
    IN  Split(p8)

\* the periods Punkt may take as the end of a sentence with an effect on the
\* tokens: a period after a word character, followed by whitespace and by
\* more text
SentenceEndCandidates(s) ==
    {i \in 2..Len(s) :
        /\ s[i] = "."
        /\ s[i - 1] \notin Whitespace \cup {"."}
        /\ i < Len(s)
        /\ s[i + 1] \in Whitespace
        /\ \E k \in (i + 2)..Len(s) : s[k] \notin Whitespace}

\* the tokens of s from position `from` on, the sentences ending at `ends`
RECURSIVE TokenizeSentences(_, _, _)
TokenizeSentences(s, from, ends) ==
    LET later == {i \in ends : i >= from}
    IN  IF later = {} THEN TreebankTokenize(SubSeq(s, from, Len(s)))
        ELSE LET e == CHOOSE i \in later : \A j \in later : i <= j
             IN  TreebankTokenize(SubSeq(s, from, e)) \o TokenizeSentences(s, e + 1, ends)

\* word_tokenize(text): every token sequence the sentence splitter allows
word_tokenize(s) ==
    {TokenizeSentences(s, 1, ends) : ends \in SUBSET SentenceEndCandidates(s)}

\* ------------------------------------------------------------------------
\* nltk.corpus.stopwords (external): a sample of the corpus

english == <<"e", "n", "g", "l", "i", "s", "h">>
spanish == <<"s", "p", "a", "n", "i", "s", "h">>

\* stopwords.fileids()
Fileids == {english, spanish}

\* stopwords.words(language)
StopwordsWords(lang) ==
    CASE lang = english ->
           {<<"a">>, <<"s">>, <<"a", "s">>, <<"i", "s">>, <<"i", "t">>, <<"t", "h", "e">>}
      [] lang = spanish ->
           {<<"a">>, <<"e", "s">>, <<"l", "a">>}

\* ------------------------------------------------------------------------
\* Module constants

DEFAULT_LANGUAGE == english

\* the order of str on the characters of language names
CharRank(c) ==
    LET abc == <<"a", "b", "c", "d", "e", "f", "g", "h", "i", "j", "k", "l", "m",
                 "n", "o", "p", "q", "r", "s", "t", "u", "v", "w", "x", "y", "z">>
    IN  IF \E i \in 1..Len(abc) : abc[i] = c
        THEN (CHOOSE i \in 1..Len(abc) : abc[i] = c) + 100
        ELSE 0

\* s < t for two Python strings
RECURSIVE StrLess(_, _)
StrLess(s, t) ==
    IF t = <<>> THEN FALSE
    ELSE IF s = <<>> THEN TRUE
    ELSE IF Head(s) = Head(t) THEN StrLess(Tail(s), Tail(t))
    ELSE CharRank(Head(s)) < CharRank(Head(t))

\* sorted(S) for a set of strings
RECURSIVE Sorted(_)
Sorted(S) ==
    IF S = {} THEN <<>>
    ELSE LET m == CHOOSE x \in S : \A y \in S \ {x} : StrLess(x, y)
         IN  <<m>> \o Sorted(S \ {m})

\* ------------------------------------------------------------------------
\* What is written to the error stream: one record per sys.stderr.write

Message(kind, language, available, resource) ==
    [kind |-> kind, language |-> language, available |-> available, resource |-> resource]

\* "Language '<language>' not supported. Available languages: ..."
LanguageWarning(language, supported) ==
    Message("language_not_supported", language, Sorted(supported), "")

\* "NLTK resource error: <str(e)>"
ResourceError(resource) == Message("nltk_resource_error", <<>>, <<>>, resource)

\* "You may need to download NLTK resources. Try: python -m nltk.downloader ..."
DownloadHint == Message("download_hint", <<>>, <<>>, "")

\* "Warning: Input contains non-UTF-8 data"
NonUtf8Warning == Message("non_utf8_warning", <<>>, <<>>, "")

\* "Error: <str(e)>"
ErrorMessage == Message("error", <<>>, <<>>, "")

\* "An unexpected error occurred: <str(e)>"
UnexpectedErrorMessage == Message("unexpected_error", <<>>, <<>>, "")

\* ------------------------------------------------------------------------
\* remove_stopwords: the steps of its body as operators

\* a mutation of NormalizeLanguage: the language is compared as given
NormalizeLanguageAsGiven(lang) == lang

\* language = language.lower()
NormalizeLanguage(lang) == Lower(lang)

\* a mutation of ResolveLanguage: the fallback is another supported language
ResolveLanguageToSpanish(lang, supported) ==
    IF lang \in supported THEN lang ELSE spanish

\* the language after the fallback
ResolveLanguage(lang, supported) ==
    IF lang \in supported THEN lang ELSE english

\* a mutation of KeepsWord: punctuation is dropped as with punctuation=False
KeepsWordDropsPunctuation(word, stops) ==
    word \notin stops /\ ~IsSubstring(word, string_punctuation)

\* the condition of the comprehension for punctuation=True
KeepsWord(word, stops) == word \notin stops

\* the condition of the comprehension for punctuation=False
KeepsWordNoPunctuation(word, stops) ==
    word \notin stops /\ ~IsSubstring(word, string_punctuation)

\* the literal special_chars
special_chars == <<"U+0060", "'", "\"", "-", "_", "'">>

\* if word.endswith("'s"): word = word[:-2]
StripPossessive(word) ==
    IF EndsWith(word, <<"'", "s">>) THEN SubSeq(word, 1, Len(word) - 2) ELSE word

\* for char in special_chars: word = word.replace(char, "")
RECURSIVE RemoveChars(_, _)
RemoveChars(word, chars) ==
    IF chars = <<>> THEN word
    ELSE RemoveChars(RemoveChar(word, Head(chars)), Tail(chars))

\* one round of the cleaning loop on a word
CleanWord(word) == RemoveChars(StripPossessive(word), special_chars)

\* the cleaning loop: clean_words
CleanWords(ws) ==
    SelectSeq([i \in 1..Len(ws) |-> CleanWord(ws[i])], LAMBDA w : w # <<>>)

\* filtered_words for punctuation=True
FilterKeepPunctuation(ws, stops) == SelectSeq(ws, LAMBDA w : KeepsWord(w, stops))

\* filtered_words for punctuation=False
FilterAndClean(ws, stops) ==
    CleanWords(SelectSeq(ws, LAMBDA w : KeepsWordNoPunctuation(w, stops)))

\* the string that is returned for list_words=False
FormatString(ws) == Strip(CollapseWhitespace(JoinWords(ws)))

\* a mutation of EmptyResult: the empty string whatever list_words is
EmptyResultAlwaysString(list_words) == [kind |-> "str", value |-> <<>>]

\* [] if list_words else ""
EmptyResult(list_words) ==
    [kind |-> IF list_words THEN "list" ELSE "str", value |-> <<>>]

\* the value that is returned for non-empty text
ShapeResult(ws, list_words) ==
    IF list_words THEN [kind |-> "list", value |-> ws]
    ELSE [kind |-> "str", value |-> FormatString(ws)]

NoResult == [kind |-> "none", value |-> <<>>]

\* ------------------------------------------------------------------------
\* Inputs

\* the examples of the tests and of the documentation
ExampleTexts ==
    { <<"h", "e", "l", "l", "o", ",", ",", ",", "w", "o", "r", "l", "d", ".", ".", ".",
        "t", "e", "s", "t", "!", "!", "!">>,
      <<"J", "o", "h", "n", "'", "s", " ", "b", "o", "o", "k">>,
      <<"h", "e", "l", "l", "o", "-", "w", "o", "r", "l", "d">>,
      <<"h", "e", "l", "l", "o", " ", " ", " ", " ", "w", "o", "r", "l", "d">>,
      <<" ", " ", "h", "e", "l", "l", "o", " ", " ", "w", "o", "r", "l", "d", " ", " ">>,
      <<"t", "h", "e", "-", " ", "i", "s", " ", "i", "t">>,
      <<"A", ",", " ", "X", ".">>,
      <<"x", "s", ".", " ", "x">> }

Texts == SeqsUpTo(Alphabet, MaxLen) \cup ExampleTexts

CliTexts == SeqsUpTo(Alphabet, MaxCliLen)

StdinData == SeqsUpTo(StdinAlphabet, MaxCliLen)

Languages ==
    { DEFAULT_LANGUAGE,
      <<"E", "N", "G", "L", "I", "S", "H">>,
      spanish,
      <<"k", "l", "i", "n", "g", "o", "n">>,
      <<"K", "l", "i", "n", "g", "o", "n">> }

\* what a call into NLTK may raise besides returning
Raisable == {"LookupError", "ValueError", "Exception"}

\* ------------------------------------------------------------------------
\* State

VARIABLES
    pc,                  \* the control point
    SUPPORTED_LANGUAGES, \* the module global
    caller,              \* "lib": remove_stopwords is called directly; "cli": main()
    source,              \* main: "arg" (args.text is given) or "stdin"
    raw,                 \* main: args.text, or the bytes on standard input
    arg_text,            \* remove_stopwords: the argument text
    arg_language,        \* remove_stopwords: the argument language
    punctuation,         \* remove_stopwords: the argument punctuation
    list_words,          \* remove_stopwords: the argument list_words
    text,                \* remove_stopwords: the local text
    language,            \* remove_stopwords: the local language
    words,               \* remove_stopwords: the local words
    stop_words,          \* remove_stopwords: the local stop_words
    filtered_words,      \* remove_stopwords: the local filtered_words
    result,              \* the value remove_stopwords returned
    exc,                 \* the exception in flight, or "none"
    missing,             \* the NLTK resource a LookupError is about, or "none"
    consulted,           \* the NLTK entry points called so far
    stderr,              \* the writes to the error stream
    stdout,              \* the lines printed to standard output
    exit_code            \* the exit status of the process, -1 while it runs

vars ==
    <<pc, SUPPORTED_LANGUAGES, caller, source, raw, arg_text, arg_language,
      punctuation, list_words, text, language, words, stop_words, filtered_words,
      result, exc, missing, consulted, stderr, stdout, exit_code>>

inputs == <<caller, source, raw, arg_language, punctuation, list_words>>

locals == <<text, language, words, stop_words, filtered_words>>

InitCommon ==
    /\ pc = "import"
    /\ SUPPORTED_LANGUAGES = {}
    /\ arg_language \in Languages
    /\ punctuation \in BOOLEAN
    /\ list_words \in BOOLEAN
    /\ language = arg_language
    /\ words = <<>>
    /\ stop_words = {}
    /\ filtered_words = <<>>
    /\ result = NoResult
    /\ exc = "none"
    /\ missing = "none"
    /\ consulted = {}
    /\ stderr = <<>>
    /\ stdout = <<>>
    /\ exit_code = -1

\* a program that imports the module and calls remove_stopwords
InitLib ==
    /\ caller = "lib"
    /\ source = "none"
    /\ raw = <<>>
    /\ arg_text \in Texts
    /\ text = arg_text
    /\ InitCommon

\* the command line: the parsed arguments, and standard input
InitCli ==
    /\ caller = "cli"
    /\ \/ source = "arg" /\ raw \in CliTexts
       \/ source = "stdin" /\ raw \in StdinData
    /\ arg_text = <<>>
    /\ text = <<>>
    /\ InitCommon

Init == InitLib \/ InitCli

\* ------------------------------------------------------------------------
\* Module load

\* SUPPORTED_LANGUAGES = set(stopwords.fileids()), the corpus being found
ModuleLoad ==
    /\ pc = "import"
    /\ SUPPORTED_LANGUAGES' = Fileids
    /\ consulted' = consulted \cup {"fileids"}
    /\ pc' = IF caller = "cli" THEN "main_input" ELSE "rs_entry"
    /\ UNCHANGED <<inputs, arg_text, locals, result, exc, missing, stderr, stdout, exit_code>>

\* the same statement, the corpus not being found: stopwords.fileids() raises
\* LookupError and the import fails; nothing encloses the statement
ModuleLoadFails ==
    /\ pc = "import"
    /\ consulted' = consulted \cup {"fileids"}
    /\ exc' = "LookupError"
    /\ missing' = "stopwords"
    /\ pc' = "import_failed"
    /\ UNCHANGED <<SUPPORTED_LANGUAGES, inputs, arg_text, locals, result, stderr, stdout,
                   exit_code>>

\* ------------------------------------------------------------------------
\* remove_stopwords

\* if not text: return [] if list_words else ""
RS_ReturnEmpty ==
    /\ pc = "rs_entry"
    /\ text = <<>>
    /\ result' = EmptyResult(list_words)
    /\ pc' = "rs_returned"
    /\ UNCHANGED <<SUPPORTED_LANGUAGES, inputs, arg_text, locals, exc, missing, consulted,
                   stderr, stdout, exit_code>>

\* the language is lowercased and validated, the warning written and the
\* fallback taken when it is not supported; then text = text.lower()
RS_ValidateLanguage ==
    /\ pc = "rs_entry"
    /\ text # <<>>
    /\ LET lang == NormalizeLanguage(language)
       IN  /\ language' = ResolveLanguage(lang, SUPPORTED_LANGUAGES)
           /\ stderr' = IF lang \in SUPPORTED_LANGUAGES THEN stderr
                        ELSE Append(stderr, LanguageWarning(lang, SUPPORTED_LANGUAGES))
    /\ text' = Lower(text)
    /\ pc' = "rs_tokenize"
    /\ UNCHANGED <<SUPPORTED_LANGUAGES, inputs, arg_text, words, stop_words, filtered_words,
                   result, exc, missing, consulted, stdout, exit_code>>

\* words = word_tokenize(text)
RS_Tokenize ==
    /\ pc = "rs_tokenize"
    /\ words' \in word_tokenize(text)
    /\ consulted' = consulted \cup {"word_tokenize"}
    /\ pc' = "rs_stopwords"
    /\ UNCHANGED <<SUPPORTED_LANGUAGES, inputs, arg_text, text, language, stop_words,
                   filtered_words, result, exc, missing, stderr, stdout, exit_code>>

\* word_tokenize raises: LookupError when the punkt resource is missing (the
\* except clause takes it), or something else (it leaves remove_stopwords)
RS_TokenizeRaises ==
    /\ pc = "rs_tokenize"
    /\ \E e \in Raisable :
          /\ exc' = e
          /\ missing' = IF e = "LookupError" THEN "punkt" ELSE "none"
          /\ pc' = IF e = "LookupError" THEN "rs_except" ELSE "rs_raised"
    /\ consulted' = consulted \cup {"word_tokenize"}
    /\ UNCHANGED <<SUPPORTED_LANGUAGES, inputs, arg_text, locals, result, stderr, stdout,
                   exit_code>>

\* stop_words = set(stopwords.words(language))
RS_LoadStopwords ==
    /\ pc = "rs_stopwords"
    /\ stop_words' = StopwordsWords(language)
    /\ consulted' = consulted \cup {"words"}
    /\ pc' = "rs_filter"
    /\ UNCHANGED <<SUPPORTED_LANGUAGES, inputs, arg_text, text, language, words,
                   filtered_words, result, exc, missing, stderr, stdout, exit_code>>

\* stopwords.words raises LookupError: the corpus is no longer found
RS_LoadStopwordsRaises ==
    /\ pc = "rs_stopwords"
    /\ exc' = "LookupError"
    /\ missing' = "stopwords"
    /\ consulted' = consulted \cup {"words"}
    /\ pc' = "rs_except"
    /\ UNCHANGED <<SUPPORTED_LANGUAGES, inputs, arg_text, locals, result, stderr, stdout,
                   exit_code>>

\* if punctuation: filtered_words = [word for word in words if ...]
RS_FilterKeepPunctuation ==
    /\ pc = "rs_filter"
    /\ punctuation
    /\ filtered_words' = FilterKeepPunctuation(words, stop_words)
    /\ pc' = "rs_format"
    /\ UNCHANGED <<SUPPORTED_LANGUAGES, inputs, arg_text, text, language, words, stop_words,
                   result, exc, missing, consulted, stderr, stdout, exit_code>>

\* else: the filter on stopwords and punctuation, then the cleaning loop
RS_FilterAndClean ==
    /\ pc = "rs_filter"
    /\ ~punctuation
    /\ filtered_words' = FilterAndClean(words, stop_words)
    /\ pc' = "rs_format"
    /\ UNCHANGED <<SUPPORTED_LANGUAGES, inputs, arg_text, text, language, words, stop_words,
                   result, exc, missing, consulted, stderr, stdout, exit_code>>

\* the output formatting and the return
RS_Return ==
    /\ pc = "rs_format"
    /\ result' = ShapeResult(filtered_words, list_words)
    /\ pc' = "rs_returned"
    /\ UNCHANGED <<SUPPORTED_LANGUAGES, inputs, arg_text, locals, exc, missing, consulted,
                   stderr, stdout, exit_code>>

\* what the except clause writes before it raises again
LookupErrorWrites(resource) == <<ResourceError(resource), DownloadHint>>

\* except LookupError as e: the two writes, then raise
RS_ExceptLookupError ==
    /\ pc = "rs_except"
    /\ stderr' = stderr \o LookupErrorWrites(missing)
    /\ pc' = "rs_raised"
    /\ UNCHANGED <<SUPPORTED_LANGUAGES, inputs, arg_text, locals, result, exc, missing,
                   consulted, stdout, exit_code>>

\* ------------------------------------------------------------------------
\* main, after parser.parse_args()

\* bytes.decode("utf-8") raises UnicodeDecodeError
DecodeFails(bytes) == \E i \in 1..Len(bytes) : bytes[i] = "0xFF"

\* bytes.decode("utf-8", errors="replace")
DecodeReplace(bytes) ==
    [i \in 1..Len(bytes) |-> IF bytes[i] = "0xFF" THEN "U+FFFD" ELSE bytes[i]]

\* text = args.text.strip(), then the call of remove_stopwords
Main_TextFromArg ==
    /\ pc = "main_input"
    /\ source = "arg"
    /\ arg_text' = Strip(raw)
    /\ text' = Strip(raw)
    /\ pc' = "rs_entry"
    /\ UNCHANGED <<SUPPORTED_LANGUAGES, inputs, language, words, stop_words, filtered_words,
                   result, exc, missing, consulted, stderr, stdout, exit_code>>

\* standard input is read and decoded, invalid bytes replaced with a warning;
\* then the call of remove_stopwords
Main_TextFromStdin ==
    /\ pc = "main_input"
    /\ source = "stdin"
    /\ arg_text' = DecodeReplace(raw)
    /\ text' = DecodeReplace(raw)
    /\ stderr' = IF DecodeFails(raw) THEN Append(stderr, NonUtf8Warning) ELSE stderr
    /\ pc' = "rs_entry"
    /\ UNCHANGED <<SUPPORTED_LANGUAGES, inputs, language, words, stop_words, filtered_words,
                   result, exc, missing, consulted, stdout, exit_code>>

\* a mutation of PrintedLines: only a list is printed
PrintedLinesListOnly(res) == IF res.kind = "list" THEN res.value ELSE <<>>

\* what main prints: a line per word, or the one string
PrintedLines(res) == IF res.kind = "list" THEN res.value ELSE <<res.value>>

\* sys.exit(1) of the three except clauses
ExitStatusOnError == 1

\* the result is printed and main returns: the process ends with status 0
Main_Print ==
    /\ pc = "rs_returned"
    /\ caller = "cli"
    /\ stdout' = stdout \o PrintedLines(result)
    /\ exit_code' = 0
    /\ pc' = "exited"
    /\ UNCHANGED <<SUPPORTED_LANGUAGES, inputs, arg_text, locals, result, exc, missing,
                   consulted, stderr>>

\* except ValueError as e
Main_ExceptValueError ==
    /\ pc = "rs_raised"
    /\ caller = "cli"
    /\ exc = "ValueError"
    /\ stderr' = Append(stderr, ErrorMessage)
    /\ exit_code' = ExitStatusOnError
    /\ pc' = "exited"
    /\ UNCHANGED <<SUPPORTED_LANGUAGES, inputs, arg_text, locals, result, exc, missing,
                   consulted, stdout>>

\* except LookupError: nothing is written here
Main_ExceptLookupError ==
    /\ pc = "rs_raised"
    /\ caller = "cli"
    /\ exc = "LookupError"
    /\ exit_code' = ExitStatusOnError
    /\ pc' = "exited"
    /\ UNCHANGED <<SUPPORTED_LANGUAGES, inputs, arg_text, locals, result, exc, missing,
                   consulted, stderr, stdout>>

\* except Exception as e
Main_ExceptException ==
    /\ pc = "rs_raised"
    /\ caller = "cli"
    /\ exc = "Exception"
    /\ stderr' = Append(stderr, UnexpectedErrorMessage)
    /\ exit_code' = ExitStatusOnError
    /\ pc' = "exited"
    /\ UNCHANGED <<SUPPORTED_LANGUAGES, inputs, arg_text, locals, result, exc, missing,
                   consulted, stdout>>

\* ------------------------------------------------------------------------
\* Specification

Next ==
    \/ ModuleLoad
    \/ ModuleLoadFails
    \/ RS_ReturnEmpty
    \/ RS_ValidateLanguage
    \/ RS_Tokenize
    \/ RS_TokenizeRaises
    \/ RS_LoadStopwords
    \/ RS_LoadStopwordsRaises
    \/ RS_FilterKeepPunctuation
    \/ RS_FilterAndClean
    \/ RS_Return
    \/ RS_ExceptLookupError
    \/ Main_TextFromArg
    \/ Main_TextFromStdin
    \/ Main_Print
    \/ Main_ExceptValueError
    \/ Main_ExceptLookupError
    \/ Main_ExceptException

Spec == Init /\ [][Next]_vars

\* ------------------------------------------------------------------------
\* Vocabulary of the properties

\* remove_stopwords was called with a non-empty text and has returned
ReturnedNonEmpty == pc \in {"rs_returned", "exited"} /\ exc = "none" /\ arg_text # <<>>

\* the tokens of the output: the list, or the space-separated words of the string
OutputTokens(res) == IF res.kind = "list" THEN res.value ELSE Split(res.value)

\* the characters of string.punctuation
PunctuationChars == {string_punctuation[i] : i \in 1..Len(string_punctuation)}

IsSinglePunctuation(w) == Len(w) = 1 /\ w[1] \in PunctuationChars

IsOnlyPunctuation(w) == w # <<>> /\ \A i \in 1..Len(w) : w[i] \in PunctuationChars

\* the language the stopwords are taken from, by the rule of the specification:
\* the lowercased argument if the corpus has it, English otherwise
ResolvedLanguageOf(lang) == IF Lower(lang) \in Fileids THEN Lower(lang) ELSE english

IsSupported(lang) == Lower(lang) \in Fileids

\* the writes of the unsupported-language warning among the writes so far
LanguageWarnings == SelectSeq(stderr, LAMBDA m : m.kind = "language_not_supported")

\* the words joined with single spaces
RECURSIVE SingleSpaced(_)
SingleSpaced(ws) ==
    IF ws = <<>> THEN <<>>
    ELSE IF Tail(ws) = <<>> THEN Head(ws)
    ELSE Head(ws) \o <<" ">> \o SingleSpaced(Tail(ws))

\* ------------------------------------------------------------------------
\* Properties

\* C1: with punctuation=False no token of the output of a non-empty text is a
\* single ASCII punctuation character or a stopword of the resolved language,
\* the tokens taken as they are after the cleaning.
C1_NoPunctuationNoStopwordInOutput ==
    (ReturnedNonEmpty /\ ~punctuation) =>
        \A i \in 1..Len(OutputTokens(result)) :
            LET w == OutputTokens(result)[i]
            IN  /\ ~IsSinglePunctuation(w)
                /\ w \notin StopwordsWords(ResolvedLanguageOf(arg_language))

\* C2: with punctuation=True and list_words=True the result for a non-empty
\* text is the token sequence of the lowercased text without the tokens that
\* are stopwords of the resolved language: everything else is kept as it is,
\* in order and with its multiplicity.
C2_KeepPunctuationListIsTokensMinusStopwords ==
    (ReturnedNonEmpty /\ punctuation /\ list_words) =>
        /\ result.kind = "list"
        /\ words \in word_tokenize(Lower(arg_text))
        /\ result.value =
             SelectSeq(words,
                       LAMBDA w : w \notin StopwordsWords(ResolvedLanguageOf(arg_language)))

\* a punctuation token is kept and a stopword removed, punctuation=True
C2_Witness ==
    /\ ReturnedNonEmpty /\ punctuation /\ list_words
    /\ Len(result.value) < Len(words)
    /\ \E i \in 1..Len(result.value) : IsSinglePunctuation(result.value[i])
    /\ \E i \in 1..Len(arg_text) : arg_text[i] # LowerChar(arg_text[i])

\* what remove_stopwords returns for the tokens ws with the stopwords of lang
ResultFromWords(ws, lang, keep_punctuation, as_list) ==
    ShapeResult(IF keep_punctuation
                THEN FilterKeepPunctuation(ws, StopwordsWords(lang))
                ELSE FilterAndClean(ws, StopwordsWords(lang)),
                as_list)

\* the writes to the error stream that the call of remove_stopwords made
\* (main writes at most one warning before the call)
WritesOfCall ==
    IF stderr # <<>> /\ stderr[1] = NonUtf8Warning THEN Tail(stderr) ELSE stderr

\* C3: for a non-empty text and a language that is not supported, nothing is
\* raised because of the language (only a call into NLTK raises), one warning
\* that lists every supported language is written, and the value returned is
\* the value for language="english" with the same text and flags.
C3_UnsupportedLanguageFallsBackToEnglish ==
    (pc \notin {"import", "import_failed", "main_input", "rs_entry"}
        /\ arg_text # <<>> /\ ~IsSupported(arg_language)) =>
        /\ Len(LanguageWarnings) = 1
        /\ WritesOfCall[1] = LanguageWarning(Lower(arg_language), Fileids)
        /\ WritesOfCall[1].available = <<english, spanish>>
        /\ exc # "none" => "word_tokenize" \in consulted
        /\ pc \in {"rs_returned", "exited"} /\ exc = "none" =>
             /\ WritesOfCall = <<LanguageWarning(Lower(arg_language), Fileids)>>
             /\ words \in word_tokenize(Lower(arg_text))
             /\ result = ResultFromWords(words, english, punctuation, list_words)

\* an unsupported language, and an English stopword was removed
C3_Witness ==
    /\ ReturnedNonEmpty /\ ~IsSupported(arg_language)
    /\ \E i \in 1..Len(words) :
          words[i] \in StopwordsWords(english) \ StopwordsWords(spanish)
    /\ OutputTokens(result) # <<>>

\* C4: for the empty text remove_stopwords returns [] if list_words and ""
\* otherwise, whatever language and punctuation are; it raises nothing, writes
\* nothing to the error stream, and calls neither the tokenizer nor the
\* stopword corpus.
C4_EmptyTextReturnsEmptyAtOnce ==
    (arg_text = <<>> /\ pc \notin {"import", "import_failed", "main_input"}) =>
        /\ pc \in {"rs_entry", "rs_returned", "exited"}
        /\ exc = "none"
        /\ stderr = <<>>
        /\ consulted \cap {"word_tokenize", "words"} = {}
        /\ pc # "rs_entry" =>
             result = [kind |-> IF list_words THEN "list" ELSE "str", value |-> <<>>]

\* the empty text with an unsupported language, list mode, has returned
C4_Witness ==
    /\ pc = "rs_returned"
    /\ arg_text = <<>>
    /\ ~IsSupported(arg_language)
    /\ list_words
    /\ result.kind = "list"

\* C5: wherever the stopword corpus or the tokenizer resource is missing, the
\* lookup failure reaches the caller only after the hint with the remediation
\* has been written to the error stream; the load of SUPPORTED_LANGUAGES at
\* module start is one of these places.
C5_HintBeforeLookupFailureReachesCaller ==
    (exc = "LookupError" /\ pc \in {"import_failed", "rs_raised", "exited"}) =>
        \E i \in 1..Len(stderr) : stderr[i] = DownloadHint

\* C6: with punctuation=False and list_words=True no token made of punctuation
\* only is in the result, runs of punctuation included: for
\* "hello,,,world...test!!!" the result is ["hello", "world", "test"].
C6_PunctuationRunsAreRemoved ==
    (ReturnedNonEmpty /\ ~punctuation /\ list_words) =>
        /\ \A i \in 1..Len(result.value) : ~IsOnlyPunctuation(result.value[i])
        /\ arg_text = <<"h", "e", "l", "l", "o", ",", ",", ",", "w", "o", "r", "l", "d",
                        ".", ".", ".", "t", "e", "s", "t", "!", "!", "!">> =>
             result.value = << <<"h", "e", "l", "l", "o">>, <<"w", "o", "r", "l", "d">>,
                               <<"t", "e", "s", "t">> >>

\* C7: the string that is returned with list_words=False is the list that is
\* returned with list_words=True joined with single spaces: it neither starts
\* nor ends with whitespace and has no two whitespace characters in a row.
C7_StringIsListJoinedWithSingleSpaces ==
    (pc \in {"rs_returned", "exited"} /\ exc = "none" /\ ~list_words) =>
        /\ result.kind = "str"
        /\ result.value = SingleSpaced(filtered_words)
        /\ arg_text # <<>> =>
             ResultFromWords(words, language, punctuation, TRUE).value = filtered_words
        /\ result.value # <<>> =>
             /\ result.value[1] \notin Whitespace
             /\ result.value[Len(result.value)] \notin Whitespace
        /\ \A i \in 1..(Len(result.value) - 1) :
              ~(result.value[i] \in Whitespace /\ result.value[i + 1] \in Whitespace)

\* a text with whitespace at its start and a run of whitespace between two
\* words that are both kept
C7_Witness ==
    /\ ReturnedNonEmpty /\ ~list_words
    /\ arg_text[1] \in Whitespace
    /\ \E i \in 1..(Len(arg_text) - 3) :
          /\ arg_text[i] \notin Whitespace
          /\ arg_text[i + 1] \in Whitespace
          /\ arg_text[i + 2] \in Whitespace
          /\ arg_text[i + 3] \notin Whitespace
    /\ Len(filtered_words) >= 2
    /\ \E i \in 1..Len(result.value) : result.value[i] = " "

\* what the validation of the language makes of the argument lang: the
\* language the stopwords are taken from, and what is written
LanguageOutcome(lang) ==
    LET l == NormalizeLanguage(lang)
    IN  [language |-> ResolveLanguage(l, Fileids),
         written  |-> IF l \in Fileids THEN <<>> ELSE <<LanguageWarning(l, Fileids)>>]

\* C8: two language arguments that differ only in letter case give the same
\* result and the same text on the error stream: the run with arg_language
\* ends as the run with any such other language does.
C8_LanguageIsCaseInsensitive ==
    (pc \in {"rs_tokenize", "rs_returned", "exited"} /\ arg_text # <<>>) =>
        \A other \in Languages :
            Lower(other) = Lower(arg_language) =>
                LET outcome == LanguageOutcome(other)
                IN  /\ language = outcome.language
                    /\ LanguageWarnings = outcome.written
                    /\ pc \in {"rs_returned", "exited"} /\ exc = "none" =>
                         /\ WritesOfCall = outcome.written
                         /\ result = ResultFromWords(words, outcome.language,
                                                     punctuation, list_words)

\* a language written in upper case, and one of its stopwords was removed
C8_Witness ==
    /\ ReturnedNonEmpty
    /\ arg_language # Lower(arg_language)
    /\ IsSupported(arg_language)
    /\ \E other \in Languages : other # arg_language /\ Lower(other) = Lower(arg_language)
    /\ \E i \in 1..Len(words) : words[i] \in StopwordsWords(Lower(arg_language))
    /\ OutputTokens(result) # <<>>

\* the writes of a diagnostic for the exception kind
HasDiagnostic(kind) ==
    CASE kind = "ValueError" -> \E i \in 1..Len(stderr) : stderr[i].kind = "error"
      [] kind = "LookupError" ->
           /\ \E i \in 1..Len(stderr) : stderr[i].kind = "nltk_resource_error"
           /\ \E i \in 1..Len(stderr) : stderr[i].kind = "download_hint"
      [] kind = "Exception" -> \E i \in 1..Len(stderr) : stderr[i].kind = "unexpected_error"
      [] OTHER -> FALSE

\* C9: a run of main() past the argument parsing ends in one of two ways:
\* remove_stopwords has returned, the result is printed (a line per token in
\* list mode, the one line in string mode) and the status is 0; or an error
\* occurred, a diagnostic is on the error stream, nothing is printed and the
\* status is 1.  Bytes on standard input that are not UTF-8 are replaced, with
\* a warning, and the run goes on: an error comes only from a call into NLTK.
C9_MainEndsPrintedOrFailed ==
    caller = "cli" =>
        /\ pc \in {"rs_returned", "rs_raised"} =>
             ENABLED (Main_Print \/ Main_ExceptValueError \/ Main_ExceptLookupError
                      \/ Main_ExceptException)
        /\ pc = "exited" <=> exit_code # -1
        /\ pc = "exited" =>
             \/ /\ exit_code = 0
                /\ exc = "none"
                /\ result.kind = IF list_words THEN "list" ELSE "str"
                /\ Len(stdout) = IF list_words THEN Len(result.value) ELSE 1
                /\ IF list_words THEN stdout = result.value ELSE stdout[1] = result.value
             \/ /\ exit_code = 1
                /\ exc \in Raisable
                /\ HasDiagnostic(exc)
                /\ stdout = <<>>
                /\ "word_tokenize" \in consulted
        /\ (source = "stdin" /\ DecodeFails(raw) /\ pc \notin {"import", "import_failed",
                                                              "main_input"}) =>
             /\ stderr[1] = NonUtf8Warning
             /\ Len(arg_text) = Len(raw)
             /\ \A i \in 1..Len(raw) :
                   arg_text[i] = IF raw[i] = "0xFF" THEN "U+FFFD" ELSE raw[i]
             /\ exc # "none" => "word_tokenize" \in consulted

\* standard input held a byte that is not UTF-8, and the words were printed
C9_Witness ==
    /\ caller = "cli"
    /\ pc = "exited"
    /\ exit_code = 0
    /\ source = "stdin"
    /\ DecodeFails(raw)
    /\ list_words
    /\ stdout # <<>>

\* the six characters the cleaning is to delete
CleanedAwayChars == {"U+0060", "'", "\"", "-", "_", "U+2019"}

\* C10: with punctuation=False every token that is returned is non-empty and
\* holds none of the backtick, the single quote, the double quote, the hyphen,
\* the underscore and the right single quotation mark (U+2019); "john's book"
\* gives "john" and "hello-world" gives "helloworld".
C10_CleanedTokensHoldNoSpecialCharacter ==
    (ReturnedNonEmpty /\ ~punctuation /\ list_words) =>
        /\ \A i \in 1..Len(result.value) :
              /\ result.value[i] # <<>>
              /\ \A k \in 1..Len(result.value[i]) : result.value[i][k] \notin CleanedAwayChars
        /\ arg_text = <<"J", "o", "h", "n", "'", "s", " ", "b", "o", "o", "k">> =>
             result.value = << <<"j", "o", "h", "n">>, <<"b", "o", "o", "k">> >>
        /\ arg_text = <<"h", "e", "l", "l", "o", "-", "w", "o", "r", "l", "d">> =>
             result.value = << <<"h", "e", "l", "l", "o", "w", "o", "r", "l", "d">> >>

====
